---------------------------- MODULE Spec2Model ----------------------------
(***************************************************************************)
(* Model of the expense manager: the statement-line parser                 *)
(* (src/pdf_parser.py), the SQLite store (src/database_manager.py,         *)
(* class DatabaseManager) and the operations of the desktop application    *)
(* that drive them (src/app.py, class ExpenseApp).                         *)
(*                                                                         *)
(* Text is a sequence of one-character strings.  Amounts are integers in   *)
(* hundredths (the two decimals the amount pattern requires).  A calendar  *)
(* date is a record [year, month, day].                                    *)
(***************************************************************************)
EXTENDS Integers, Sequences, FiniteSets, TLC

Min(S) == CHOOSE x \in S : \A y \in S : x <= y
Max(S) == CHOOSE x \in S : \A y \in S : x >= y

(***************************************************************************)
(* Character classes of the regular expressions.                           *)
(***************************************************************************)
DigitSeq == <<"0", "1", "2", "3", "4", "5", "6", "7", "8", "9">>
UpperSeq == <<"A", "B", "C", "D", "E", "F", "G", "H", "I", "J", "K", "L", "M",
              "N", "O", "P", "Q", "R", "S", "T", "U", "V", "W", "X", "Y", "Z">>
LowerSeq == <<"a", "b", "c", "d", "e", "f", "g", "h", "i", "j", "k", "l", "m",
              "n", "o", "p", "q", "r", "s", "t", "u", "v", "w", "x", "y", "z">>

Range(s) == {s[i] : i \in 1..Len(s)}
Digits == Range(DigitSeq)
Letters == Range(UpperSeq) \cup Range(LowerSeq)
Whitespace == {" ", "\t"}
(* [A-Za-z...\.] : the class of the month token *)
MonthChars == Letters \cup {"."}
(* [\d\.] : the class of the integer part of an amount *)
AmountChars == Digits \cup {"."}

DigitVal(c) == (CHOOSE i \in 1..10 : DigitSeq[i] = c) - 1

(* str.lower() on one character, and on a text *)
LowerChar(c) ==
    IF c \in Range(UpperSeq)
    THEN LowerSeq[CHOOSE i \in 1..26 : UpperSeq[i] = c]
    ELSE c
Lower(s) == [i \in 1..Len(s) |-> LowerChar(s[i])]

(* str.strip() *)
Strip(s) ==
    LET keep == {i \in 1..Len(s) : s[i] \notin Whitespace}
    IN  IF keep = {} THEN <<>> ELSE SubSeq(s, Min(keep), Max(keep))

(* int() of a text of decimal digits *)
ParseInt(s) ==
    LET value[n \in 0..Len(s)] ==
            IF n = 0 THEN 0 ELSE value[n - 1] * 10 + DigitVal(s[n])
    IN  value[Len(s)]

IsDigit(s, i) == i >= 1 /\ i <= Len(s) /\ s[i] \in Digits
CharAt(s, i, c) == i >= 1 /\ i <= Len(s) /\ s[i] = c

(* length of the longest run of characters of Class that starts at s[i]:
   what a greedy  [Class]*  consumes *)
RunLen(s, i, Class) ==
    LET stop == {j \in i..Len(s) : s[j] \notin Class}
    IN  IF stop = {} THEN Len(s) - i + 1 ELSE Min(stop) - i

(***************************************************************************)
(* datetime.date(year, month, day): raises ValueError unless the date      *)
(* exists.                                                                 *)
(***************************************************************************)
IsLeap(y) == (y % 4 = 0 /\ y % 100 # 0) \/ y % 400 = 0
DaysInMonth(y, m) ==
    IF m = 2 THEN (IF IsLeap(y) THEN 29 ELSE 28)
    ELSE IF m \in {4, 6, 9, 11} THEN 30 ELSE 31
ValidDate(y, m, d) ==
    /\ y >= 1 /\ y <= 9999
    /\ m >= 1 /\ m <= 12
    /\ d >= 1 /\ d <= DaysInMonth(y, m)

(***************************************************************************)
(* The patterns of PDFParser.                                              *)
(***************************************************************************)
NoMatch == [ok |-> FALSE, g1 |-> <<>>, g2 |-> <<>>, start |-> 0, end |-> 0]

(* DATE_PATTERN = ^(\d{1,2}[/-]\d{1,2}) ; g1, g2 are the two numbers of
   the group after  part.replace('-', '/').split('/') *)
DATE_PATTERN(line) ==
    LET ks == {k \in {1, 2} :
                 /\ \A j \in 1..k : IsDigit(line, j)
                 /\ (CharAt(line, k + 1, "/") \/ CharAt(line, k + 1, "-"))
                 /\ IsDigit(line, k + 2)}
    IN  IF ks = {} THEN NoMatch
        ELSE LET k == Max(ks)
                 n == IF IsDigit(line, k + 3) THEN 2 ELSE 1
             IN  [ok |-> TRUE, g1 |-> SubSeq(line, 1, k),
                  g2 |-> SubSeq(line, k + 2, k + 1 + n),
                  start |-> 1, end |-> k + 1 + n]

(* MONTH_PATTERN = ^(\d{1,2})\s+([A-Za-z...\.]+) *)
MONTH_PATTERN(line) ==
    LET ks == {k \in {1, 2} :
                 /\ \A j \in 1..k : IsDigit(line, j)
                 /\ k + 1 <= Len(line) /\ line[k + 1] \in Whitespace
                 /\ LET w == RunLen(line, k + 1, Whitespace)
                    IN  RunLen(line, k + 1 + w, MonthChars) >= 1}
    IN  IF ks = {} THEN NoMatch
        ELSE LET k == Max(ks)
                 w == RunLen(line, k + 1, Whitespace)
                 a == RunLen(line, k + 1 + w, MonthChars)
             IN  [ok |-> TRUE, g1 |-> SubSeq(line, 1, k),
                  g2 |-> SubSeq(line, k + w + 1, k + w + a),
                  start |-> 1, end |-> k + w + a]

(* MONTH_NAMES: the twelve three-letter keys, in month order *)
MONTH_NAMES ==
    << <<"e", "n", "e">>, <<"f", "e", "b">>, <<"m", "a", "r">>,
       <<"a", "b", "r">>, <<"m", "a", "y">>, <<"j", "u", "n">>,
       <<"j", "u", "l">>, <<"a", "g", "o">>, <<"s", "e", "p">>,
       <<"o", "c", "t">>, <<"n", "o", "v">>, <<"d", "i", "c">> >>

(* MONTH_NAMES.get(key): the month number, 0 for None *)
MONTH_NAMES_get(key) ==
    LET hit == {i \in 1..12 : MONTH_NAMES[i] = key}
    IN  IF hit = {} THEN 0 ELSE Min(hit)

(* s[:3] *)
First3(s) == SubSeq(s, 1, IF Len(s) < 3 THEN Len(s) ELSE 3)

(* one attempt of AMOUNT_PATTERN = \d[\d\.]*,\d{2}-?  at position i:
   the index of the last character matched, 0 when there is no match at i *)
AmountEndAt(rest, i) ==
    IF ~IsDigit(rest, i) THEN 0
    ELSE LET j == i + RunLen(rest, i, AmountChars)
         IN  IF CharAt(rest, j, ",") /\ IsDigit(rest, j + 1) /\ IsDigit(rest, j + 2)
             THEN (IF CharAt(rest, j + 3, "-") THEN j + 3 ELSE j + 2)
             ELSE 0

(* the loop keeping the first match of AMOUNT_PATTERN instead of the last *)
AmountScan_first(rest) ==
    LET scan[i \in 1..(Len(rest) + 1)] ==
            IF i > Len(rest) THEN NoMatch
            ELSE LET e == AmountEndAt(rest, i)
                 IN  IF e = 0 THEN scan[i + 1]
                     ELSE [ok |-> TRUE, g1 |-> SubSeq(rest, i, e),
                           g2 |-> <<>>, start |-> i, end |-> e]
    IN  scan

(* for am in AMOUNT_PATTERN.finditer(rest): amt_m = am
   the last of the non-overlapping matches, scanning from position i *)
AmountScan(rest) ==
    LET scan[i \in 1..(Len(rest) + 1)] ==
            IF i > Len(rest) THEN NoMatch
            ELSE LET e == AmountEndAt(rest, i)
                 IN  IF e = 0 THEN scan[i + 1]
                     ELSE LET later == scan[e + 1]
                          IN  IF later.ok THEN later
                              ELSE [ok |-> TRUE, g1 |-> SubSeq(rest, i, e),
                                    g2 |-> <<>>, start |-> i, end |-> e]
    IN  scan
LastAmount(rest) == AmountScan(rest)[1]

(* one attempt of INSTALL_PATTERN = C\.?\s*(\d{1,2})/(\d{1,2})  (IGNORECASE)
   at position i *)
InstallAt(desc, i) ==
    IF ~(CharAt(desc, i, "C") \/ CharAt(desc, i, "c")) THEN NoMatch
    ELSE LET p1 == IF CharAt(desc, i + 1, ".") THEN i + 2 ELSE i + 1
             p2 == p1 + RunLen(desc, p1, Whitespace)
             ks == {k \in {1, 2} :
                      /\ \A j \in p2..(p2 + k - 1) : IsDigit(desc, j)
                      /\ CharAt(desc, p2 + k, "/")
                      /\ IsDigit(desc, p2 + k + 1)}
         IN  IF ks = {} THEN NoMatch
             ELSE LET k == Max(ks)
                      n == IF IsDigit(desc, p2 + k + 2) THEN 2 ELSE 1
                  IN  [ok |-> TRUE, g1 |-> SubSeq(desc, p2, p2 + k - 1),
                       g2 |-> SubSeq(desc, p2 + k + 1, p2 + k + n),
                       start |-> i, end |-> p2 + k + n]

(* INSTALL_PATTERN.search(desc): the leftmost match *)
INSTALL_PATTERN(desc) ==
    LET at == {i \in 1..Len(desc) : InstallAt(desc, i).ok}
    IN  IF at = {} THEN NoMatch ELSE InstallAt(desc, Min(at))


(***************************************************************************)
(* float(clean): raises ValueError when a sign is left inside the text     *)
(* (a '-' that follows the digits); otherwise the value, in hundredths.    *)
(* clean is  digits '.' two digits  once it holds no '-'.                  *)
(***************************************************************************)
FloatRaises(clean) == "-" \in Range(clean)
FloatCents(clean) ==
    LET p == Min({i \in 1..Len(clean) : clean[i] = "."})
    IN  ParseInt(SubSeq(clean, 1, p - 1)) * 100
          + ParseInt(SubSeq(clean, p + 1, Len(clean)))

(* amt_str.replace('.', '').replace(',', '.') *)
Clean(amt_str) ==
    LET out[n \in 0..Len(amt_str)] ==
            IF n = 0 THEN <<>>
            ELSE IF amt_str[n] = "." THEN out[n - 1]
            ELSE out[n - 1] \o <<(IF amt_str[n] = "," THEN "." ELSE amt_str[n])>>
    IN  out[Len(amt_str)]

(* installment_number of a transaction without an installment marker *)
None == -1

Transaction(date, store_name, amount, installment_number) ==
    [date |-> date, store_name |-> store_name, amount |-> amount,
     installment_number |-> installment_number]

Date(y, m, d) == [year |-> y, month |-> m, day |-> d]

(***************************************************************************)
(* The loop body of PDFParser.parse_pdf, stage by stage.  Each stage ends  *)
(* the iteration (Skip: a continue; Raise: the exception leaves parse_pdf) *)
(* or hands its results to the next one.                                   *)
(***************************************************************************)
Skip == [raised |-> FALSE, out |-> <<>>]
Raise == [raised |-> TRUE, out |-> <<>>]
Emit(tx) == [raised |-> FALSE, out |-> <<tx>>]

(* transactions.append(Transaction(date, desc or orig, amt, inst)) *)
Append5(orig, date, amt, desc, inst) ==
    Emit(Transaction(date, IF desc # <<>> THEN desc ELSE orig, amt, inst))

(* the description left as it is, with the text before the '*' *)
AfterStar_keep(desc) == desc

(* if '*' in desc: desc = desc.split('*', 1)[1].strip() *)
AfterStar(desc) ==
    IF "*" \in Range(desc)
    THEN Strip(SubSeq(desc, Min({i \in 1..Len(desc) : desc[i] = "*"}) + 1, Len(desc)))
    ELSE desc

(* im = INSTALL_PATTERN.search(desc): the installment number and the text
   before the marker *)
Installment(orig, date, amt, desc, im) ==
    IF im.ok
    THEN Append5(orig, date, amt, AfterStar(Strip(SubSeq(desc, 1, im.start - 1))),
                 ParseInt(im.g1))
    ELSE Append5(orig, date, amt, AfterStar(desc), None)

(* desc = rest[:amt_m.start()].strip() *)
Description(orig, date, amt, desc) ==
    Installment(orig, date, amt, desc, INSTALL_PATTERN(desc))

(* neg = '-' in amt_str or (amt_m.start() > 0 and rest[amt_m.start()-1] == '-') *)
Neg(rest, amt_m) ==
    "-" \in Range(amt_m.g1) \/ CharAt(rest, amt_m.start - 1, "-")

(* try: amt = float(clean); if neg: amt = -amt   except: continue *)
Amount(orig, date, rest, amt_m, clean) ==
    IF FloatRaises(clean) THEN Skip
    ELSE Description(orig, date,
                     IF Neg(rest, amt_m) THEN 0 - FloatCents(clean) ELSE FloatCents(clean),
                     Strip(SubSeq(rest, 1, amt_m.start - 1)))

(* if not amt_m: continue *)
AmountMatch_zero(orig, date, rest, amt_m) ==
    IF ~amt_m.ok THEN Emit(Transaction(date, orig, 0, None))
    ELSE Amount(orig, date, rest, amt_m, Clean(amt_m.g1))

AmountMatch(orig, date, rest, amt_m) ==
    IF ~amt_m.ok THEN Skip
    ELSE Amount(orig, date, rest, amt_m, Clean(amt_m.g1))

(* if date is None or not rest: continue *)
Rest(orig, date, rest) ==
    IF rest = <<>> THEN Skip
    ELSE AmountMatch(orig, date, rest, LastAmount(rest))

(* m2 = MONTH_PATTERN.match(line): the datetime.date call is not guarded *)
MonthBranch(orig, line, year, m2, mn) ==
    IF ~(m2.ok /\ mn # 0) THEN Skip
    ELSE IF ~ValidDate(year, mn, ParseInt(m2.g1)) THEN Raise
    ELSE Rest(orig, Date(year, mn, ParseInt(m2.g1)),
              Strip(SubSeq(line, m2.end + 1, Len(line))))

MonthStage(orig, line, year, m2) ==
    MonthBranch(orig, line, year, m2, MONTH_NAMES_get(First3(Lower(m2.g2))))

(* m = DATE_PATTERN.match(line): inside try/except, an invalid date leaves
   date = None and the month-name form is tried *)
DateBranch(orig, line, year, m) ==
    IF m.ok /\ ValidDate(year, ParseInt(m.g2), ParseInt(m.g1))
    THEN Rest(orig, Date(year, ParseInt(m.g2), ParseInt(m.g1)),
              Strip(SubSeq(line, m.end + 1, Len(line))))
    ELSE MonthStage(orig, line, year, MONTH_PATTERN(line))

(* orig = line; line = line.strip(); if not line: continue *)
Stripped(orig, line, year) ==
    IF line = <<>> THEN Skip
    ELSE DateBranch(orig, line, year, DATE_PATTERN(line))

ParseLine(orig, year) == Stripped(orig, Strip(orig), year)

(* parse_pdf as a function of the extracted lines: the whole loop *)
ParseLines(ls, year) ==
    LET after[n \in 0..Len(ls)] ==
            IF n = 0 THEN Skip
            ELSE LET before == after[n - 1]
                     r == ParseLine(ls[n], year)
                 IN  IF before.raised \/ r.raised THEN Raise
                     ELSE [raised |-> FALSE, out |-> before.out \o r.out]
    IN  after
parse_pdf(ls, year) == ParseLines(ls, year)[Len(ls)]

(***************************************************************************)
(* Sample texts.                                                           *)
(***************************************************************************)
D_05_03 == <<"0", "5", "/", "0", "3">>
D_31_02 == <<"3", "1", "/", "0", "2">>
D_29_02 == <<"2", "9", "-", "0", "2">>
D_5_ene == <<"5", " ", "e", "n", "e">>
D_30_Feb == <<"3", "0", " ", "F", "e", "b">>
D_12 == <<"1", "2">>
D_31_01 == <<"3", "1", "/", "0", "1">>
D_24_May_25 == <<"2", "4", "-", "M", "a", "y", "-", "2", "5">>
D_12_market == <<"1", "2", " ", "m", "a", "r", "k", "e", "t">>
D_5_setiembre == <<"5", " ", "s", "e", "t", "i", "e", "m", "b", "r", "e">>
B_TIENDA_10 == <<" ", "T", "I", "E", "N", "D", "A", " ", "1", "0", ",", "0", "0">>
B_KIOSCO_6800_minus == <<" ", "K", "I", "O", "S", "C", "O", " ", "6", ".", "8", "0", "0", ",", "0", "0", "-">>
B_KIOSCO_minus_2_50 == <<" ", "K", "I", "O", "S", "C", "O", " ", "-", "2", ",", "5", "0">>
B_LA_FLOR == <<" ", "S", "U", "P", "E", "R", "M", "E", "R", "C", "A", "D", "O", " ", "*", " ", "L", "A", " ", "F", "L", "O", "R", " ", "C", ".", "0", "3", "/", "0", "6", " ", "9", ".", "5", "8", "3", ",", "2", "9">>
B_market_1000_minus == <<" ", "m", "a", "r", "k", "e", "t", " ", "1", ".", "0", "0", "0", ",", "0", "0", "-">>
B_KIOSCO_inst_minus == <<" ", "K", "I", "O", "S", "C", "O", " ", "C", ".", "0", "1", "/", "0", "3", " ", "-", "2", ",", "5", "0">>
B_TIENDA == <<" ", "T", "I", "E", "N", "D", "A">>
B_two_amounts == <<" ", "1", ",", "0", "0", " ", "B", "A", "R", " ", "2", ",", "0", "0">>
B_coupon == <<" ", "1", "2", " ", "B", "A", "R", " ", "7", " ", "2", ",", "0", "0">>
N_TIENDA == <<"T", "I", "E", "N", "D", "A">>
N_KIOSCO == <<"K", "I", "O", "S", "C", "O">>

DateTokens == {D_05_03, D_31_02, D_29_02, D_5_ene, D_30_Feb, D_12, D_24_May_25, D_31_01,
               D_12_market, D_5_setiembre}
Bodies == {B_TIENDA_10, B_KIOSCO_6800_minus, B_KIOSCO_minus_2_50, B_LA_FLOR,
           B_market_1000_minus, B_TIENDA, B_two_amounts, B_coupon}
SampleLines == {d \o b : d \in DateTokens, b \in Bodies}


(***************************************************************************)
(* State.                                                                  *)
(*   categories, stores, statements, transactions: the four tables, each a *)
(*     function from the row's id to the row;                              *)
(*   sqlite_sequence: the AUTOINCREMENT counter of each table (an id is    *)
(*     never given twice);                                                 *)
(*   cash_id: ExpenseApp.cash_id;  today: datetime.date.today();           *)
(*   extraction: what parse_pdf returns for each file of the run;          *)
(*   last: the last call, its arguments and how it ended;                  *)
(*   lines, pos, parsed, pc: the loop of parse_pdf over one document;      *)
(*   target, surviving: the (month, year) the caller of load_statement      *)
(*     entered and the transactions after the dates were adjusted to it.   *)
(***************************************************************************)
VARIABLES categories, stores, statements, transactions, sqlite_sequence,
          cash_id, today, extraction, last, lines, pos, parsed, pc, target,
          surviving

tables == <<categories, stores, statements, transactions, sqlite_sequence>>
parser == <<lines, pos, parsed, pc, target, surviving>>
vars == <<categories, stores, statements, transactions, sqlite_sequence,
          cash_id, today, extraction, last, lines, pos, parsed, pc, target,
          surviving>>

(* bounds of the model *)
MaxCategories == 3
MaxStores == 2
MaxStatements == 2
MaxTransactions == 3
MaxLines == 2

DEFAULT_CATEGORY == "NO ASIGNADA"
CASH_CARD == "EFECTIVO"
CASH_MONTH == 1
CASH_YEAR == 1900
CashKey == [month |-> CASH_MONTH, year |-> CASH_YEAR, card_name |-> CASH_CARD,
            last4digits |-> ""]

(* inputs *)
CategoryNames == {DEFAULT_CATEGORY, "COMIDA", "OCIO"}
StoreNames == {N_TIENDA, N_KIOSCO}
Amounts == {-250}

(* last: the operation, the exception it raised ("" for none) and what it
   returned or, for a call that returns nothing, the rows it changed *)
Call(op, raised, ret) == [op |-> op, raised |-> raised, ret |-> ret]

(* the connection without the pragma: SQLite does not enforce REFERENCES *)
foreign_keys_off == FALSE

(* PRAGMA foreign_keys=ON *)
foreign_keys == TRUE

Restrict(f, S) == [x \in S |-> f[x]]

(* get_default_category_id: the id of "NO ASIGNADA"; fetchone()[0] raises
   TypeError when there is no such row *)
HasDefault == \E c \in DOMAIN categories : categories[c] = DEFAULT_CATEGORY
get_default_category_id ==
    Min({c \in DOMAIN categories : categories[c] = DEFAULT_CATEGORY})

(***************************************************************************)
(* Category operations.                                                    *)
(***************************************************************************)
(* add_category on a table without UNIQUE(name): the INSERT always succeeds *)
add_category_no_unique(name) ==
    /\ sqlite_sequence.categories < MaxCategories
    /\ LET id == sqlite_sequence.categories + 1
       IN  /\ categories' = categories @@ (id :> name)
           /\ sqlite_sequence' = [sqlite_sequence EXCEPT !.categories = id]
           /\ last' = Call("add_category", "", 0)
    /\ UNCHANGED <<stores, statements, transactions, cash_id, today, extraction, parser>>

add_category(name) ==
    IF \E c \in DOMAIN categories : categories[c] = name
    THEN /\ last' = Call("add_category", "ValueError", 0)
         /\ UNCHANGED <<tables, cash_id, today, extraction, parser>>
    ELSE /\ sqlite_sequence.categories < MaxCategories
         /\ LET id == sqlite_sequence.categories + 1
            IN  /\ categories' = categories @@ (id :> name)
                /\ sqlite_sequence' = [sqlite_sequence EXCEPT !.categories = id]
                /\ last' = Call("add_category", "", 0)
         /\ UNCHANGED <<stores, statements, transactions, cash_id, today, extraction, parser>>

(* delete_category whose UPDATE has no WHERE: every store goes to the
   default category *)
delete_category_no_where(cid) ==
    IF ~HasDefault
    THEN /\ last' = Call("delete_category", "TypeError", <<0, 0>>)
         /\ UNCHANGED <<tables, cash_id, today, extraction, parser>>
    ELSE IF cid = get_default_category_id
    THEN /\ last' = Call("delete_category", "ValueError", <<0, 0>>)
         /\ UNCHANGED <<tables, cash_id, today, extraction, parser>>
    ELSE LET default == get_default_category_id
         IN  /\ stores' = [s \in DOMAIN stores |->
                             [stores[s] EXCEPT !.category_id = default]]
             /\ categories' = Restrict(categories, DOMAIN categories \ {cid})
             /\ last' = Call("delete_category", "",
                             <<Cardinality(DOMAIN stores),
                               IF cid \in DOMAIN categories THEN 1 ELSE 0>>)
             /\ UNCHANGED <<statements, transactions, sqlite_sequence,
                            cash_id, today, extraction, parser>>

(* delete_category without the comparison with the default id; the DELETE of
   a category that stores still reference fails on the foreign key *)
delete_category_unguarded(cid) ==
    LET moved == {s \in DOMAIN stores : stores[s].category_id = cid}
    IN  IF HasDefault /\ cid = get_default_category_id /\ moved # {}
        THEN /\ last' = Call("delete_category", "IntegrityError", <<0, 0>>)
             /\ UNCHANGED <<tables, cash_id, today, extraction, parser>>
        ELSE /\ HasDefault
             /\ stores' = [s \in DOMAIN stores |->
                             IF s \in moved
                             THEN [stores[s] EXCEPT !.category_id = get_default_category_id]
                             ELSE stores[s]]
             /\ categories' = Restrict(categories, DOMAIN categories \ {cid})
             /\ last' = Call("delete_category", "",
                             <<Cardinality(moved),
                               IF cid \in DOMAIN categories THEN 1 ELSE 0>>)
             /\ UNCHANGED <<statements, transactions, sqlite_sequence,
                            cash_id, today, extraction, parser>>

delete_category(cid) ==
    IF ~HasDefault
    THEN /\ last' = Call("delete_category", "TypeError", <<0, 0>>)
         /\ UNCHANGED <<tables, cash_id, today, extraction, parser>>
    ELSE IF cid = get_default_category_id
    THEN /\ last' = Call("delete_category", "ValueError", <<0, 0>>)
         /\ UNCHANGED <<tables, cash_id, today, extraction, parser>>
    ELSE LET default == get_default_category_id
             moved == {s \in DOMAIN stores : stores[s].category_id = cid}
         IN  /\ stores' = [s \in DOMAIN stores |->
                             IF s \in moved
                             THEN [stores[s] EXCEPT !.category_id = default]
                             ELSE stores[s]]
             /\ categories' = Restrict(categories, DOMAIN categories \ {cid})
             /\ last' = Call("delete_category", "",
                             <<Cardinality(moved),
                               IF cid \in DOMAIN categories THEN 1 ELSE 0>>)
             /\ UNCHANGED <<statements, transactions, sqlite_sequence,
                            cash_id, today, extraction, parser>>

(***************************************************************************)
(* Store operations.                                                       *)
(***************************************************************************)
StoreIdOf(strs, name) == Min({s \in DOMAIN strs : strs[s].name = name})
HasStore(strs, name) == \E s \in DOMAIN strs : strs[s].name = name

(* get_store_id without the SELECT: a row is inserted on every call *)
GetStoreId_always_insert(db, name) ==
    LET id == db.sqlite_sequence.stores + 1
    IN  [db |-> [db EXCEPT
                   !.stores = @ @@ (id :> [name |-> name,
                                            category_id |-> get_default_category_id]),
                   !.sqlite_sequence.stores = id],
         id |-> id]

(* get_store_id that writes the default category on a hit as well *)
GetStoreId_rebind(db, name) ==
    IF HasStore(db.stores, name)
    THEN [db |-> [db EXCEPT !.stores[StoreIdOf(db.stores, name)].category_id =
                                 get_default_category_id],
          id |-> StoreIdOf(db.stores, name)]
    ELSE LET id == db.sqlite_sequence.stores + 1
         IN  [db |-> [db EXCEPT
                        !.stores = @ @@ (id :> [name |-> name,
                                                 category_id |-> get_default_category_id]),
                        !.sqlite_sequence.stores = id],
              id |-> id]

(* get_store_id on a database db = [stores, transactions, sqlite_sequence]:
   the database afterwards and the id returned *)
GetStoreId(db, name) ==
    IF HasStore(db.stores, name)
    THEN [db |-> db, id |-> StoreIdOf(db.stores, name)]
    ELSE LET id == db.sqlite_sequence.stores + 1
         IN  [db |-> [db EXCEPT
                        !.stores = @ @@ (id :> [name |-> name,
                                                 category_id |-> get_default_category_id]),
                        !.sqlite_sequence.stores = id],
              id |-> id]

Db == [stores |-> stores, transactions |-> transactions,
       sqlite_sequence |-> sqlite_sequence]

get_store_id(name) ==
    IF ~HasStore(stores, name) /\ ~HasDefault
    THEN /\ last' = Call("get_store_id", "TypeError", 0)
         /\ UNCHANGED <<tables, cash_id, today, extraction, parser>>
    ELSE /\ HasStore(stores, name) \/ sqlite_sequence.stores < MaxStores
         /\ LET r == GetStoreId(Db, name)
            IN  /\ stores' = r.db.stores
                /\ sqlite_sequence' = r.db.sqlite_sequence
                /\ last' = Call("get_store_id", "", r.id)
         /\ UNCHANGED <<categories, statements, transactions, cash_id, today, extraction, parser>>

(* update_store_category with the two parameters bound in the wrong order:
   UPDATE stores SET category_id=<store id> WHERE id=<category id> *)
update_store_category_swapped(sid, cid) ==
    IF cid \in DOMAIN stores /\ foreign_keys /\ sid \notin DOMAIN categories
    THEN /\ last' = Call("update_store_category", "IntegrityError", 0)
         /\ UNCHANGED <<tables, cash_id, today, extraction, parser>>
    ELSE /\ stores' = [s \in DOMAIN stores |->
                         IF s = cid THEN [stores[s] EXCEPT !.category_id = sid]
                         ELSE stores[s]]
         /\ last' = Call("update_store_category", "",
                         IF cid \in DOMAIN stores THEN 1 ELSE 0)
         /\ UNCHANGED <<categories, statements, transactions, sqlite_sequence,
                        cash_id, today, extraction, parser>>

(* UPDATE stores SET category_id=? WHERE id=? : no row, no error; a row and
   a category id that does not exist: the foreign key raises IntegrityError *)
update_store_category(sid, cid) ==
    IF sid \in DOMAIN stores /\ foreign_keys /\ cid \notin DOMAIN categories
    THEN /\ last' = Call("update_store_category", "IntegrityError", 0)
         /\ UNCHANGED <<tables, cash_id, today, extraction, parser>>
    ELSE /\ stores' = [s \in DOMAIN stores |->
                         IF s = sid THEN [stores[s] EXCEPT !.category_id = cid]
                         ELSE stores[s]]
         /\ last' = Call("update_store_category", "",
                         IF sid \in DOMAIN stores THEN 1 ELSE 0)
         /\ UNCHANGED <<categories, statements, transactions, sqlite_sequence,
                        cash_id, today, extraction, parser>>


(***************************************************************************)
(* Statement and transaction operations.                                   *)
(***************************************************************************)
StatementKey(month, year, card_name) ==
    [month |-> month, year |-> year, card_name |-> card_name, last4digits |-> ""]

(* add_statement without the UNIQUE key and its check: no key is taken *)
HasStatement_never(key) == FALSE

(* UNIQUE(month, year, card_name, last4digits) *)
HasStatement(key) == \E s \in DOMAIN statements : statements[s] = key

(* a row of transactions; store_name records the t.store_name the row was
   inserted for (the column itself holds only store_id) *)
Row(sid, t, store_id) ==
    [statement_id |-> sid, date |-> t.date, store_id |-> store_id,
     amount |-> t.amount, installment_number |-> t.installment_number,
     store_name |-> t.store_name]

(* add_transactions(sid, txs) on a database db: for each t, get_store_id and
   the INSERT *)
RECURSIVE AddTransactions(_, _, _)
AddTransactions(db, sid, txs) ==
    IF txs = <<>> THEN db
    ELSE LET g  == GetStoreId(db, Head(txs).store_name)
             id == g.db.sqlite_sequence.transactions + 1
         IN  AddTransactions(
                 [g.db EXCEPT !.transactions = @ @@ (id :> Row(sid, Head(txs), g.id)),
                              !.sqlite_sequence.transactions = id],
                 sid, Tail(txs))

(* load_statement, lines 244-250: the caller's month and year replace the
   parsed ones; a day that does not exist in that month drops the
   transaction *)
(* the loop of lines 244-250 leaving at the first invalid date instead of
   going on with the next transaction *)
RECURSIVE Adjust_break(_, _, _)
Adjust_break(txs, year, month) ==
    IF txs = <<>> THEN <<>>
    ELSE LET tx == Head(txs)
         IN  IF ValidDate(year, month, tx.date.day)
             THEN <<[tx EXCEPT !.date = Date(year, month, tx.date.day)]>>
                  \o Adjust_break(Tail(txs), year, month)
             ELSE <<>>

RECURSIVE Adjust(_, _, _)
Adjust(txs, year, month) ==
    IF txs = <<>> THEN <<>>
    ELSE LET tx == Head(txs)
         IN  (IF ValidDate(year, month, tx.date.day)
              THEN <<[tx EXCEPT !.date = Date(year, month, tx.date.day)]>>
              ELSE <<>>) \o Adjust(Tail(txs), year, month)

(* what fitz hands to the loop: the lines of a readable document *)
Pdf(readable, ls) == [readable |-> readable, lines |-> ls]

(* two purchases that keep their day in any month, around one of the 31st *)
Pdf_two == Pdf(TRUE, <<D_05_03 \o B_TIENDA_10, D_31_01 \o B_TIENDA_10,
                       D_5_ene \o B_KIOSCO_inst_minus>>)
Pdf_raise == Pdf(TRUE, <<D_30_Feb \o B_market_1000_minus, D_05_03 \o B_TIENDA_10>>)
Pdf_none == Pdf(TRUE, <<D_24_May_25 \o B_TIENDA_10>>)
Pdf_unreadable == Pdf(FALSE, <<>>)
Pdfs == {Pdf_two, Pdf_raise, Pdf_none, Pdf_unreadable}
Todays == {Date(2024, 2, 29), Date(2025, 3, 5)}

(* self.parser.parse_pdf(file_path) in load_statement: fitz.open raises on
   an unreadable file, otherwise the loop runs over the lines *)
Extract(pdf, year) ==
    IF pdf.readable THEN parse_pdf(pdf.lines, year)
    ELSE [raised |-> TRUE, out |-> <<>>]
(* parse_pdf reads the file and datetime.date.today().year only, and no
   operation changes either: extraction holds what it returns for each
   file during this run *)
Extractions == [pdf \in Pdfs |-> Extract(pdf, today.year)]
Extracted(pdf) == extraction[pdf]

load_statement(month, year, cn, pdf) ==
    LET key == StatementKey(month, year, cn)
    IN  IF HasStatement(key)
        THEN /\ last' = Call("load_statement", "ValueError", 0)
             /\ UNCHANGED <<tables, cash_id, today, extraction, parser>>
        ELSE /\ sqlite_sequence.statements < MaxStatements
             /\ LET sid == sqlite_sequence.statements + 1
                    r   == Extracted(pdf)
                    adjusted == Adjust(r.out, year, month)
                    db0 == [Db EXCEPT !.sqlite_sequence.statements = sid]
                    db1 == AddTransactions(db0, sid, adjusted)
                IN  /\ statements' = statements @@ (sid :> key)
                    /\ IF r.raised
                       THEN /\ last' = Call("load_statement", "Exception", sid)
                            /\ sqlite_sequence' = db0.sqlite_sequence
                            /\ UNCHANGED <<stores, transactions>>
                       ELSE IF adjusted = <<>>
                       THEN /\ last' = Call("load_statement", "", sid)
                            /\ sqlite_sequence' = db0.sqlite_sequence
                            /\ UNCHANGED <<stores, transactions>>
                       ELSE /\ HasDefault
                            /\ db1.sqlite_sequence.transactions <= MaxTransactions
                            /\ db1.sqlite_sequence.stores <= MaxStores
                            /\ stores' = db1.stores
                            /\ transactions' = db1.transactions
                            /\ sqlite_sequence' = db1.sqlite_sequence
                            /\ last' = Call("load_statement", "", sid)
             /\ UNCHANGED <<categories, cash_id, today, extraction, parser>>

(* load_statement whose transaction is rolled back as a whole when an INSERT
   raises: the statement goes with the rows *)
load_statement_fault_rollback(month, year, cn, pdf, k) ==
    /\ ~HasStatement(StatementKey(month, year, cn))
    /\ sqlite_sequence.statements < MaxStatements
    /\ ~Extracted(pdf).raised
    /\ k \in 1..Len(Adjust(Extracted(pdf).out, year, month))
    /\ last' = Call("load_statement", "sqlite3.Error", sqlite_sequence.statements + 1)
    /\ UNCHANGED <<tables, cash_id, today, extraction, parser>>

(* load_statement when the k-th INSERT of add_transactions raises
   sqlite3.Error (disk full, database locked): add_statement has committed,
   get_store_id has run for the k-th transaction, the k - 1 rows written
   before it stay in the connection, where every later query of the window
   reads them and the next commit keeps them; nothing catches the
   exception, the callback ends and the window goes on *)
load_statement_fault(month, year, cn, pdf, k) ==
    /\ ~HasStatement(StatementKey(month, year, cn))
    /\ sqlite_sequence.statements < MaxStatements
    /\ ~Extracted(pdf).raised
    /\ HasDefault
    /\ \E adjusted \in {Adjust(Extracted(pdf).out, year, month)},
          db0 \in {[Db EXCEPT !.sqlite_sequence.statements = @ + 1]} :
         /\ k \in 1..Len(adjusted)
         /\ \E db1 \in {AddTransactions(db0, db0.sqlite_sequence.statements,
                                        SubSeq(adjusted, 1, k - 1))} :
              \E g \in {GetStoreId(db1, adjusted[k].store_name)} :
                /\ g.db.sqlite_sequence.transactions < MaxTransactions
                /\ g.db.sqlite_sequence.stores <= MaxStores
                /\ stores' = g.db.stores
                /\ transactions' = g.db.transactions
                /\ sqlite_sequence' = g.db.sqlite_sequence
    /\ statements' = statements
                       @@ (sqlite_sequence.statements + 1 :> StatementKey(month, year, cn))
    /\ last' = Call("load_statement", "sqlite3.Error", sqlite_sequence.statements + 1)
    /\ UNCHANGED <<categories, cash_id, today, extraction, parser>>

(* delete_statement that also removes the stores no remaining transaction
   refers to *)
delete_statement_purge(sid) ==
    /\ sid \in DOMAIN statements
    /\ statements' = Restrict(statements, DOMAIN statements \ {sid})
    /\ transactions' =
         Restrict(transactions,
                  {x \in DOMAIN transactions : transactions[x].statement_id # sid})
    /\ stores' =
         Restrict(stores,
                  {g \in DOMAIN stores :
                     \E x \in DOMAIN transactions :
                        /\ transactions[x].statement_id # sid
                        /\ transactions[x].store_id = g})
    /\ last' = Call("delete_statement", "", 0)
    /\ UNCHANGED <<categories, sqlite_sequence, cash_id, today, extraction, parser>>

(* DELETE FROM statements WHERE id=? ; ON DELETE CASCADE removes the rows of
   transactions that reference it *)
delete_statement(sid) ==
    /\ sid \in DOMAIN statements
    /\ statements' = Restrict(statements, DOMAIN statements \ {sid})
    /\ transactions' =
         IF foreign_keys
         THEN Restrict(transactions,
                       {x \in DOMAIN transactions : transactions[x].statement_id # sid})
         ELSE transactions
    /\ last' = Call("delete_statement", "", 0)
    /\ UNCHANGED <<categories, stores, sqlite_sequence, cash_id, today, extraction, parser>>

(* modify_statement_ui: UPDATE statements SET month, year, card_name; the
   IntegrityError of the UNIQUE key is caught and shown *)
modify_statement_ui(sid, month, year, cn) ==
    /\ sid \in DOMAIN statements
    /\ LET key == StatementKey(month, year, cn)
       IN  IF \E o \in DOMAIN statements \ {sid} : statements[o] = key
           THEN /\ last' = Call("modify_statement_ui", "IntegrityError", 0)
                /\ UNCHANGED statements
           ELSE /\ statements' = [statements EXCEPT ![sid] = key]
                /\ last' = Call("modify_statement_ui", "", 0)
    /\ UNCHANGED <<categories, stores, transactions, sqlite_sequence, cash_id,
                   today, extraction, parser>>

(* add_manual_transaction_ui: the selected statement must be cash_id; then
   add_manual_transaction(cash_id, today, store, amt) *)
add_manual_transaction_ui(store, amt) ==
    /\ cash_id \in DOMAIN statements
    /\ HasDefault
    /\ LET tx  == Transaction(today, store, amt, None)
           db1 == AddTransactions(Db, cash_id, <<tx>>)
       IN  /\ db1.sqlite_sequence.transactions <= MaxTransactions
           /\ db1.sqlite_sequence.stores <= MaxStores
           /\ stores' = db1.stores
           /\ transactions' = db1.transactions
           /\ sqlite_sequence' = db1.sqlite_sequence
           /\ last' = Call("add_manual_transaction_ui", "", 0)
    /\ UNCHANGED <<categories, statements, cash_id, today, extraction, parser>>

(* delete_manual_transaction_ui: DELETE FROM transactions WHERE id=? for the
   row selected in the transactions view *)
delete_manual_transaction_ui(txn_id) ==
    /\ txn_id \in DOMAIN transactions
    /\ transactions' = Restrict(transactions, DOMAIN transactions \ {txn_id})
    /\ last' = Call("delete_manual_transaction_ui", "", 0)
    /\ UNCHANGED <<categories, stores, statements, sqlite_sequence, cash_id,
                   today, extraction, parser>>

(***************************************************************************)
(* ExpenseApp.__init__ on the database file of an earlier run:             *)
(* DatabaseManager.__init__ (_ensure_default_category,                     *)
(* _ensure_cash_statement) and cash_id = get_cash_statement_id().          *)
(***************************************************************************)
_ensure_default_category(cats, seq) ==
    IF \E c \in DOMAIN cats : cats[c] = DEFAULT_CATEGORY
    THEN [categories |-> cats, seq |-> seq]
    ELSE [categories |-> cats @@ ((seq + 1) :> DEFAULT_CATEGORY), seq |-> seq + 1]

_ensure_cash_statement(stmts, seq) ==
    IF \E s \in DOMAIN stmts : stmts[s] = CashKey
    THEN [statements |-> stmts, seq |-> seq]
    ELSE [statements |-> stmts @@ ((seq + 1) :> CashKey), seq |-> seq + 1]

get_cash_statement_id(stmts) == Min({s \in DOMAIN stmts : stmts[s] = CashKey})

ExpenseApp_init ==
    LET c == _ensure_default_category(categories, sqlite_sequence.categories)
        s == _ensure_cash_statement(statements, sqlite_sequence.statements)
    IN  /\ s.seq <= MaxStatements
        /\ categories' = c.categories
        /\ statements' = s.statements
        /\ sqlite_sequence' = [sqlite_sequence EXCEPT !.categories = c.seq,
                                                      !.statements = s.seq]
        /\ cash_id' = get_cash_statement_id(s.statements)
        /\ last' = Call("ExpenseApp_init", "", 0)
        /\ UNCHANGED <<stores, transactions, today, extraction, parser>>

(***************************************************************************)
(* The aggregation queries.                                                *)
(***************************************************************************)
RECURSIVE SumAmounts(_, _)
SumAmounts(txns, ids) ==
    IF ids = {} THEN 0
    ELSE LET x == CHOOSE y \in ids : TRUE
         IN  txns[x].amount + SumAmounts(txns, ids \ {x})

(* the join without  WHERE t.statement_id=? : the rows of every statement *)
Joined_no_where(t, scope, cid) ==
    {x \in DOMAIN t.transactions :
        /\ t.transactions[x].store_id \in DOMAIN t.stores
        /\ t.stores[t.transactions[x].store_id].category_id = cid
        /\ cid \in DOMAIN t.categories}

(* the rows of  transactions JOIN stores JOIN categories  of category cid
   within scope (a set of statement ids), on the tables t *)
Joined(t, scope, cid) ==
    {x \in DOMAIN t.transactions :
        /\ t.transactions[x].statement_id \in scope
        /\ t.transactions[x].store_id \in DOMAIN t.stores
        /\ t.stores[t.transactions[x].store_id].category_id = cid
        /\ cid \in DOMAIN t.categories}

(* GROUP BY c.id : one group per category with at least one joined row *)
Groups(t, scope) == {c \in DOMAIN t.categories : Joined(t, scope, c) # {}}
Total(t, scope, cid) == SumAmounts(t.transactions, Joined(t, scope, cid))

(* ORDER BY SUM(t.amount) DESC : the groups as a sequence of
   (name, total), equal totals in the order of the category ids *)
RECURSIVE OrderBySumDesc(_, _, _)
OrderBySumDesc(t, scope, cs) ==
    IF cs = {} THEN <<>>
    ELSE LET top == {c \in cs : \A d \in cs : Total(t, scope, c) >= Total(t, scope, d)}
             c   == Min(top)
         IN  <<<<t.categories[c], Total(t, scope, c)>>>>
               \o OrderBySumDesc(t, scope, cs \ {c})

(* the SELECT of get_category_sums (WHERE t.statement_id=?) and of
   get_all_category_sums (no WHERE) on the tables t *)
CategorySums(t, scope) == OrderBySumDesc(t, scope, Groups(t, scope))
AllScope(t) == {t.transactions[x].statement_id : x \in DOMAIN t.transactions}

Tables == [categories |-> categories, stores |-> stores,
           transactions |-> transactions]
get_category_sums(sid) == CategorySums(Tables, {sid})
get_all_category_sums == CategorySums(Tables, AllScope(Tables))

(***************************************************************************)
(* The store and the application.                                          *)
(***************************************************************************)
Months == {2, 13}
StatementYears == {2025}
Period(month, year) == [month |-> month, year |-> year]
Cards == {"VISA"}

InitTables ==
    /\ categories = (1 :> DEFAULT_CATEGORY)
    /\ stores = <<>>
    /\ statements = (1 :> CashKey)
    /\ transactions = <<>>
    /\ sqlite_sequence = [categories |-> 1, stores |-> 0, statements |-> 1,
                          transactions |-> 0]
    /\ cash_id = 1

Init ==
    /\ InitTables
    /\ today = Date(2025, 3, 5)
    /\ extraction = Extractions
    /\ last = Call("ExpenseApp_init", "", 0)
    /\ lines = <<>> /\ pos = 0 /\ parsed = <<>> /\ pc = "idle"
    /\ target = Period(3, 2025) /\ surviving = <<>>

Next ==
    \/ \E name \in CategoryNames : add_category(name)
    \/ \E cid \in 1..MaxCategories : delete_category(cid)
    \/ \E name \in StoreNames : get_store_id(name)
    \/ \E sid \in 1..MaxStores, cid \in 1..MaxCategories : update_store_category(sid, cid)
    \/ \E m \in Months, y \in StatementYears, cn \in Cards, pdf \in Pdfs :
          load_statement(m, y, cn, pdf)
    \/ \E m \in Months, y \in StatementYears, cn \in Cards, pdf \in Pdfs,
          k \in 1..MaxTransactions : load_statement_fault(m, y, cn, pdf, k)
    \/ \E sid \in 1..MaxStatements : delete_statement(sid)
    \/ \E store \in StoreNames, amt \in Amounts : add_manual_transaction_ui(store, amt)

Spec == Init /\ [][Next]_vars

(* the same operations, with the remaining ones of the window: editing a
   statement, deleting a transaction, and a restart on the same file *)
NextApp ==
    \/ Next
    \/ \E sid \in 1..MaxStatements, m \in Months, y \in StatementYears, cn \in Cards :
          modify_statement_ui(sid, m, y, cn)
    \/ \E txn_id \in 1..MaxTransactions : delete_manual_transaction_ui(txn_id)
    \/ ExpenseApp_init

SpecApp == Init /\ [][NextApp]_vars

(* the operations on statements and their transactions alone, with the keys
   a user can type into the dialogs of load_statement and
   modify_statement_ui: an ordinary month, a month no calendar has, and the
   month, year and card name of the cash statement *)
KeysEntered == {StatementKey(2, 2025, "VISA"), StatementKey(13, 2025, "VISA"), CashKey}

NextStatements ==
    \/ \E key \in KeysEntered, pdf \in Pdfs :
          load_statement(key.month, key.year, key.card_name, pdf)
    \/ \E sid \in 1..MaxStatements, key \in KeysEntered :
          modify_statement_ui(sid, key.month, key.year, key.card_name)
    \/ \E sid \in 1..MaxStatements : delete_statement(sid)
    \/ \E store \in StoreNames, amt \in Amounts : add_manual_transaction_ui(store, amt)
    \/ \E txn_id \in 1..MaxTransactions : delete_manual_transaction_ui(txn_id)
    \/ ExpenseApp_init

SpecStatements == Init /\ [][NextStatements]_vars

(***************************************************************************)
(* The loop of parse_pdf over one document, a line a step.                 *)
(***************************************************************************)
RECURSIVE SeqsUpTo(_, _)
SeqsUpTo(S, n) ==
    IF n = 0 THEN {<<>>}
    ELSE LET shorter == SeqsUpTo(S, n - 1)
         IN  shorter \cup {Append(q, x) : q \in shorter, x \in S}
Documents == SeqsUpTo(SampleLines, MaxLines) \ {<<>>}

(* the periods the caller enters: February of a leap year, a month of 31
   days, and a month number that int() accepts and no calendar has *)
Periods == {Period(2, 2024), Period(3, 2024), Period(13, 2025)}

InitParse ==
    /\ InitTables
    /\ today \in Todays
    /\ extraction = Extractions
    /\ last = Call("parse_pdf", "", 0)
    /\ lines \in Documents /\ pos = 0 /\ parsed = <<>> /\ pc = "loop"
    /\ target \in Periods /\ surviving = <<>>

(* one iteration: the line is skipped, a transaction is appended, or the
   exception leaves parse_pdf *)
parse_line ==
    /\ pc = "loop" /\ pos < Len(lines)
    /\ LET r == ParseLine(lines[pos + 1], today.year)
       IN  IF r.raised
           THEN /\ pc' = "raised"
                /\ last' = Call("parse_pdf", "ValueError", 0)
                /\ UNCHANGED <<pos, parsed>>
           ELSE /\ pos' = pos + 1
                /\ parsed' = parsed \o r.out
                /\ UNCHANGED <<pc, last>>
    /\ UNCHANGED <<tables, cash_id, today, extraction, lines, target, surviving>>

parse_return ==
    /\ pc = "loop" /\ pos = Len(lines)
    /\ pc' = "returned"
    /\ last' = Call("parse_pdf", "", Len(parsed))
    /\ UNCHANGED <<tables, cash_id, today, extraction, lines, pos, parsed, target, surviving>>

(* load_statement after parse_pdf returned: the loop that builds adjusted *)
adjust_dates ==
    /\ pc = "returned"
    /\ surviving' = Adjust(parsed, target.year, target.month)
    /\ pc' = "adjusted"
    /\ UNCHANGED <<tables, cash_id, today, extraction, last, lines, pos, parsed, target>>

NextParse == parse_line \/ parse_return \/ adjust_dates
SpecParse == InitParse /\ [][NextParse]_vars


(***************************************************************************)
(* Properties of the line loop (SpecParse).                                *)
(***************************************************************************)

(* C1: the per-line loop of parse_pdf raises no exception, whatever the
   lines are; a line without a usable date or amount is skipped and the
   lines after it are still processed. *)
ParseLoopNeverRaises == pc # "raised"

(* the date stage of the loop body read off the two patterns: whether a date
   was recognized, and the remainder of the line after it *)
Recognized(line, year) ==
    LET l  == Strip(line)
        m  == DATE_PATTERN(l)
        m2 == MONTH_PATTERN(l)
        mn == MONTH_NAMES_get(First3(Lower(m2.g2)))
    IN  IF m.ok /\ ValidDate(year, ParseInt(m.g2), ParseInt(m.g1))
        THEN [ok |-> TRUE, rest |-> Strip(SubSeq(l, m.end + 1, Len(l)))]
        ELSE IF m2.ok /\ mn # 0 /\ ValidDate(year, mn, ParseInt(m2.g1))
        THEN [ok |-> TRUE, rest |-> Strip(SubSeq(l, m2.end + 1, Len(l)))]
        ELSE [ok |-> FALSE, rest |-> <<>>]

(* the last amount match of a line with a recognized date ends in '-' *)
TrailingMinus(line, year) ==
    LET d == Recognized(line, year)
    IN  /\ d.ok
        /\ LastAmount(d.rest).ok
        /\ LastAmount(d.rest).g1[Len(LastAmount(d.rest).g1)] = "-"

(* the value of an amount match without its sign: '.' removed, ',' as the
   decimal point *)
Normalized(amt_str) ==
    FloatCents(Clean(SelectSeq(amt_str, LAMBDA c : c # "-")))

(* C2: a line with a recognized date whose last amount match ends in '-'
   (such as "6.800,00-") yields a transaction whose amount is the negated
   normalized value; the line is not dropped. *)
TrailingMinusIsNegated ==
    [][(pc = "loop" /\ pos < Len(lines) /\ pc' = "loop"
        /\ TrailingMinus(lines[pos + 1], today.year))
       => /\ Len(parsed') = Len(parsed) + 1
          /\ parsed'[Len(parsed')].amount =
               0 - Normalized(LastAmount(Recognized(lines[pos + 1], today.year).rest).g1)]_vars

(***************************************************************************)
(* Properties of the store (Spec).                                         *)
(***************************************************************************)

(* C3: in every reachable state every store row references a category id
   that is in the categories table. *)
StoresReferenceCategories ==
    \A s \in DOMAIN stores : stores[s].category_id \in DOMAIN categories

(* a category with a store assigned has just been deleted *)
DeletedCategoryWithStore ==
    /\ last.op = "delete_category" /\ last.raised = ""
    /\ last.ret = <<1, 1>>
    /\ stores # <<>>

(* ids that add_category handed out and delete_category removed since *)
DeletedCategories == (1..sqlite_sequence.categories) \ DOMAIN categories

(* C4: once delete_category(c) has removed the non-default category c, a
   second delete_category(c) fails with an error. *)
SecondDeleteFails ==
    [][\A cid \in 1..MaxCategories :
         (cid \in DeletedCategories /\ delete_category(cid))
         => last'.raised # ""]_vars

(* C5: delete_category(c) for a non-default category c leaves every store
   that was assigned to c on the default category, removes c, and leaves
   every other store as it was. *)
DeleteCategoryReassigns ==
    [][\A cid \in 1..MaxCategories :
         (cid \in DOMAIN categories /\ cid # get_default_category_id
          /\ delete_category(cid))
         => /\ cid \notin DOMAIN categories'
            /\ DOMAIN categories' = DOMAIN categories \ {cid}
            /\ DOMAIN stores' = DOMAIN stores
            /\ \A s \in DOMAIN stores :
                 /\ stores'[s].name = stores[s].name
                 /\ stores[s].category_id = cid
                      => stores'[s].category_id = get_default_category_id
                 /\ stores[s].category_id # cid => stores'[s] = stores[s]]_vars

(* a category with one store was deleted while the other store stays in a
   third category *)
DeletedBesideOtherCategory ==
    /\ last.op = "delete_category" /\ last.raised = ""
    /\ last.ret = <<1, 1>>
    /\ \E s, t \in DOMAIN stores :
         /\ stores[s].category_id = get_default_category_id
         /\ stores[t].category_id # get_default_category_id

(* C6: delete_category with the id of the default category always fails
   with an error, with or without stores assigned to it, and leaves the
   categories, the stores and their assignments unchanged. *)
DeleteDefaultFails ==
    [][(HasDefault /\ delete_category(get_default_category_id))
       => /\ last'.raised # ""
          /\ categories' = categories
          /\ stores' = stores]_vars

(* the deletion of the default category was refused while a store is
   assigned to it *)
DefaultRefusedWithStore ==
    /\ last.op = "delete_category" /\ last.raised = "ValueError"
    /\ \E s \in DOMAIN stores : stores[s].category_id = get_default_category_id

(* C7: in every reachable state exactly one category is named
   "NO ASIGNADA", and it keeps the id it was created with. *)
OneDefaultCategory ==
    /\ Cardinality({c \in DOMAIN categories : categories[c] = DEFAULT_CATEGORY}) = 1
    /\ categories[1] = DEFAULT_CATEGORY

(* a second "NO ASIGNADA" was refused after other categories were added and
   deleted *)
DefaultNameRefused ==
    /\ last.op = "add_category" /\ last.raised = "ValueError"
    /\ DOMAIN categories = {1}
    /\ sqlite_sequence.categories = MaxCategories

StoreNamesUnique ==
    \A s, t \in DOMAIN stores : stores[s].name = stores[t].name => s = t

(* the rows inserted for one description carry one store id *)
SameDescriptionSameStore ==
    \A x, y \in DOMAIN transactions :
        transactions[x].store_name = transactions[y].store_name
        => transactions[x].store_id = transactions[y].store_id

(* C8: store names are unique in every reachable state; a name keeps the id
   it was given, and get_store_id(d) returns the id of the row named d, so
   the same d gets the same id on every call; two persisted transactions
   with the same description reference the same store. *)
StoreIdentity ==
    [][/\ StoreNamesUnique'
       /\ SameDescriptionSameStore'
       /\ \A s \in DOMAIN stores :
            s \in DOMAIN stores' /\ stores'[s].name = stores[s].name
       /\ \A name \in StoreNames :
            (get_store_id(name) /\ last'.raised = "")
            => /\ last'.ret \in DOMAIN stores'
               /\ stores'[last'.ret].name = name
               /\ HasStore(stores, name) => last'.ret = StoreIdOf(stores, name)]_vars

(* get_store_id answered with the store that two transactions of different
   statements, inserted for the same description, reference *)
SameStoreAcrossStatements ==
    /\ last.op = "get_store_id" /\ last.raised = ""
    /\ \E x, y \in DOMAIN transactions :
         /\ transactions[x].statement_id # transactions[y].statement_id
         /\ transactions[x].store_name = transactions[y].store_name
         /\ transactions[x].store_id = last.ret
         /\ transactions[y].store_id = last.ret

(* C9: get_store_id(d) for a description that is not stored creates exactly
   one store, bound to the current default category; for a stored
   description it creates nothing and leaves the store's category as it
   is. *)
GetStoreIdCreatesOnce ==
    [][\A name \in StoreNames :
         (get_store_id(name) /\ last'.raised = "")
         => IF HasStore(stores, name)
            THEN stores' = stores
            ELSE /\ Cardinality(DOMAIN stores') = Cardinality(DOMAIN stores) + 1
                 /\ \A s \in DOMAIN stores : s \in DOMAIN stores' /\ stores'[s] = stores[s]
                 /\ \A id \in DOMAIN stores' \ DOMAIN stores :
                      stores'[id] = [name |-> name,
                                     category_id |-> get_default_category_id]]_vars

(* get_store_id found a store that has been moved out of the default
   category *)
HitOnRecategorizedStore ==
    /\ last.op = "get_store_id" /\ last.raised = ""
    /\ last.ret \in DOMAIN stores
    /\ stores[last.ret].category_id # get_default_category_id

(* the rows of store m within scope *)
StoreRows(scope, m) ==
    {x \in DOMAIN transactions :
        transactions[x].statement_id \in scope /\ transactions[x].store_id = m}

(* the result `after` of an aggregation over scope counts the rows of m
   under b and no longer under a, given the tables before the update; the
   entries of the other categories are those of `before` *)
Moved(before, after, scope, m, a, b) ==
    LET mine   == SumAmounts(transactions, StoreRows(scope, m))
        others == Joined(Tables, scope, a) \ StoreRows(scope, m)
    IN  /\ <<categories[b], Total(Tables, scope, b) + mine>> \in Range(after)
        /\ IF others = {}
           THEN \A e \in Range(after) : e[1] # categories[a]
           ELSE <<categories[a], Total(Tables, scope, a) - mine>> \in Range(after)
        /\ \A e \in Range(before) :
             e[1] \notin {categories[a], categories[b]} => e \in Range(after)
        /\ Len(after) = Cardinality((Groups(Tables, scope) \cup {b})
                                    \ (IF others = {} THEN {a} ELSE {}))

(* the tables after a step *)
TablesAfter == [categories |-> categories', stores |-> stores',
                transactions |-> transactions']

(* C10: after update_store_category(m, b) for a store m that was in
   category a # b, get_category_sums(s), for every statement s with a
   transaction of m, and get_all_category_sums() count the amounts of m's
   transactions under b and no longer under a; the persisted transactions
   are unchanged. *)
SumsFollowCategory ==
    [][\A m \in 1..MaxStores, b \in 1..MaxCategories :
         (m \in DOMAIN stores /\ stores[m].category_id # b
          /\ b \in DOMAIN categories
          /\ update_store_category(m, b) /\ last'.raised = "")
         => /\ transactions' = transactions
            /\ \A s \in {transactions[x].statement_id :
                           x \in StoreRows(AllScope(Tables), m)} :
                 \E before \in {get_category_sums(s)},
                    after \in {CategorySums(TablesAfter, {s})} :
                   Moved(before, after, {s}, m, stores[m].category_id, b)
            /\ StoreRows(AllScope(Tables), m) # {}
                 => \E before \in {get_all_category_sums},
                       after \in {CategorySums(TablesAfter, AllScope(TablesAfter))} :
                      Moved(before, after, AllScope(Tables), m,
                            stores[m].category_id, b)]_vars

(* a store with transactions in two statements was recategorized, and the
   totals are split between two categories *)
RecategorizedWithTransactions ==
    /\ last.op = "update_store_category" /\ last.raised = "" /\ last.ret = 1
    /\ Len(get_all_category_sums) = 2
    /\ \E x, y \in DOMAIN transactions :
         /\ transactions[x].statement_id # transactions[y].statement_id
         /\ transactions[x].store_id = transactions[y].store_id
         /\ stores[transactions[x].store_id].category_id # get_default_category_id

(***************************************************************************)
(* Properties of the aggregation queries (Spec).                           *)
(***************************************************************************)

(* the transactions of the statements in scope whose store is in category c *)
InScope(scope, c) ==
    {x \in DOMAIN transactions :
        /\ transactions[x].statement_id \in scope
        /\ stores[transactions[x].store_id].category_id = c}

(* the signed sum of the amounts of a set of transactions, row by row *)
SignedSum(rows) ==
    LET upto[n \in 0..sqlite_sequence.transactions] ==
            IF n = 0 THEN 0
            ELSE upto[n - 1] + (IF n \in rows THEN transactions[n].amount ELSE 0)
    IN  upto[sqlite_sequence.transactions]

(* result holds one (name, signed sum) entry for each category with a
   transaction in scope, none for the others, in non-increasing order of
   total *)
ExactSums(result, scope) ==
    /\ \A c \in DOMAIN categories :
         Cardinality({i \in 1..Len(result) : result[i][1] = categories[c]})
           = IF InScope(scope, c) # {} THEN 1 ELSE 0
    /\ \A i \in 1..Len(result) :
         \E c \in DOMAIN categories :
            result[i] = <<categories[c], SignedSum(InScope(scope, c))>>
    /\ \A i \in 1..(Len(result) - 1) : result[i][2] >= result[i + 1][2]

(* C11: get_category_sums(s) and get_all_category_sums() return exactly one
   (category name, total) entry for each category with at least one
   transaction in scope and none for the others; each total is the signed
   sum of the amounts in scope, and the entries are in non-increasing order
   of total. *)
CategorySumsAreExact ==
    /\ \A s \in DOMAIN statements :
         \E result \in {get_category_sums(s)} : ExactSums(result, {s})
    /\ \E result \in {get_all_category_sums} :
         ExactSums(result, DOMAIN statements)

(* two statements hold transactions, and the totals over all of them are a
   positive one followed by a negative one *)
PositiveAndNegativeTotals ==
    /\ Cardinality({transactions[x].statement_id : x \in DOMAIN transactions}) = 2
    /\ Len(get_all_category_sums) = 2
    /\ get_all_category_sums[1][2] > 0
    /\ get_all_category_sums[2][2] < 0


(* ---------------------------------------------------------------------- *)
(* C12                                                                    *)

DayOf(line) == ParseInt(DATE_PATTERN(Strip(line)).g1)

(* a line that starts with DD/MM, a date of the target year whose day also
   exists in the target month, and that ends with an amount *)
ShortDateLine(line, period) ==
    LET l    == Strip(line)
        m    == DATE_PATTERN(l)
        rest == Strip(SubSeq(l, m.end + 1, Len(l)))
        a    == LastAmount(rest)
    IN  /\ m.ok
        /\ ValidDate(period.year, ParseInt(m.g2), ParseInt(m.g1))
        /\ ValidDate(period.year, period.month, ParseInt(m.g1))
        /\ a.ok
        /\ a.end = Len(rest)

(* C12: when every line of the document starts with a valid DD/MM date and
   ends with a well-formed amount, parse_pdf followed by the substitution
   of the target period yields exactly one transaction per line, in order,
   whose day is DD and whose month and year are those of the target
   period, whatever MM is. *)
ShortDateLinesSurvive ==
    (/\ pc = "adjusted"
     /\ target.month \in 1..12
     /\ \A i \in 1..Len(lines) : ShortDateLine(lines[i], target))
    => /\ Len(surviving) = Len(lines)
       /\ \A i \in 1..Len(lines) :
            surviving[i].date = Date(target.year, target.month, DayOf(lines[i]))

(* ---------------------------------------------------------------------- *)
(* C13                                                                    *)

StatementRows(t, sid) ==
    {x \in DOMAIN t : t[x].statement_id = sid}

ValidDay(year, month, tx) == ValidDate(year, month, tx.date.day)

(* C13: an import whose text was parsed drops, without an error, every
   transaction whose day does not exist in the target month (a 31st in a
   shorter month, any day when the month is outside 1..12), and persists
   the remaining ones under the new statement, in order and with the date
   of the target period; the rows of other statements are untouched. *)
ImportDropsInvalidDays ==
    [][\A m \in Months, y \in StatementYears, cn \in Cards, pdf \in Pdfs :
         (/\ last'.op = "load_statement"
          /\ ~HasStatement(StatementKey(m, y, cn))
          /\ ~Extracted(pdf).raised
          /\ load_statement(m, y, cn, pdf))
         => LET txs  == Extracted(pdf).out
                kept == SelectSeq(txs, LAMBDA tx : ValidDay(y, m, tx))
                sid  == sqlite_sequence.statements + 1
                n    == sqlite_sequence.transactions
            IN  /\ last'.raised = ""
                /\ sid \in DOMAIN statements'
                /\ StatementRows(transactions', sid) = (n + 1)..(n + Len(kept))
                /\ \A k \in 1..Len(kept) :
                     /\ transactions'[n + k].date = Date(y, m, kept[k].date.day)
                     /\ transactions'[n + k].amount = kept[k].amount
                     /\ transactions'[n + k].store_name = kept[k].store_name
                     /\ transactions'[n + k].installment_number
                          = kept[k].installment_number
                /\ \A x \in DOMAIN transactions : 
                     x \in DOMAIN transactions' /\ transactions'[x] = transactions[x]]_vars

(* an import into February has just ended without error: of the three
   transactions of the document the one of the 31st is gone, the one
   before it and the one after it are persisted *)
DroppedBesidePersisted ==
    \E s \in DOMAIN statements :
      /\ last = Call("load_statement", "", s)
      /\ statements[s].month = 2
      /\ Len(Extracted(Pdf_two).out) = 3
      /\ Cardinality(StatementRows(transactions, s)) = 2
      /\ \A x \in StatementRows(transactions, s) : transactions[x].date.day # 31

(* ---------------------------------------------------------------------- *)
(* C14                                                                    *)

(* the day of the date the loop finds at the start of a line, 0 if none *)
RecognizedDay(line, year) ==
    LET l  == Strip(line)
        m  == DATE_PATTERN(l)
        m2 == MONTH_PATTERN(l)
        mn == MONTH_NAMES_get(First3(Lower(m2.g2)))
    IN  IF m.ok /\ ValidDate(year, ParseInt(m.g2), ParseInt(m.g1))
        THEN ParseInt(m.g1)
        ELSE IF m2.ok /\ mn # 0 /\ ValidDate(year, mn, ParseInt(m2.g1))
        THEN ParseInt(m2.g1)
        ELSE 0

(* tx can be the transaction of this line: the line has a valid date, of
   the day of tx, and an amount match after it *)
From(tx, line) ==
    /\ Recognized(line, today.year).ok
    /\ LastAmount(Recognized(line, today.year).rest).ok
    /\ tx.date.day = RecognizedDay(line, today.year)

(* txs is drawn, in order, from distinct lines among the first n *)
FromLines(txs, n) ==
    \E f \in [1..Len(txs) -> 1..n] :
      /\ \A j, k \in 1..Len(txs) : j < k => f[j] < f[k]
      /\ \A k \in 1..Len(txs) : From(txs[k], lines[f[k]])

(* C14: the transactions are a subsequence of the lines: each line gives
   at most one transaction, every transaction comes from a line of its own
   with a valid date and an amount match, and the order of the lines is
   kept, in the list parse_pdf builds and in the list left after the
   substitution of the period. *)
OutputIsSubsequence ==
    /\ FromLines(parsed, pos)
    /\ pc = "adjusted" => FromLines(surviving, Len(lines))

(* two lines were parsed into two transactions and the substitution
   dropped the first one *)
SecondLineSurvives ==
    /\ pc = "adjusted"
    /\ Len(lines) = 2
    /\ Len(parsed) = 2
    /\ Len(surviving) = 1
    /\ surviving[1].amount = parsed[2].amount
    /\ parsed[1].amount # parsed[2].amount

(* ---------------------------------------------------------------------- *)
(* C15                                                                    *)

(* s is amount-shaped: a digit, digits and '.', a ',', two decimals and an
   optional '-' *)
Shaped(s) ==
    \E c \in 2..Len(s) :
      /\ s[1] \in Digits
      /\ \A k \in 2..(c - 1) : s[k] \in Digits \cup {"."}
      /\ s[c] = ","
      /\ c + 2 <= Len(s)
      /\ s[c + 1] \in Digits /\ s[c + 2] \in Digits
      /\ Len(s) = c + 2 \/ (Len(s) = c + 3 /\ s[c + 3] = "-")

(* the amount-shaped substrings of rest that lie in no longer one *)
Occurrences(rest) ==
    LET all == {o \in (1..Len(rest)) \X (1..Len(rest)) :
                  o[1] <= o[2] /\ Shaped(SubSeq(rest, o[1], o[2]))}
    IN  {o \in all : ~\E q \in all : q # o /\ q[1] <= o[1] /\ o[2] <= q[2]}

LastOccurrence(rest) ==
    CHOOSE o \in Occurrences(rest) : \A q \in Occurrences(rest) : q[2] <= o[2]

(* the value in cents of an amount-shaped string without its sign *)
ShapedCents(s) ==
    LET c == CHOOSE k \in 1..Len(s) : s[k] = ","
    IN  ParseInt(SelectSeq(SubSeq(s, 1, c - 1), LAMBDA ch : ch # ".")) * 100
          + ParseInt(SubSeq(s, c + 1, c + 2))

IsSubstring(a, b) ==
    \E k \in 0..(Len(b) - Len(a)) : SubSeq(b, k + 1, k + Len(a)) = a

Abs(n) == IF n < 0 THEN 0 - n ELSE n

(* C15: when the text after the date holds two or more amount-shaped
   substrings and the line yields a transaction, its amount is that of the
   last one and its description is made of text that precedes the last one
   (or is the whole raw line when nothing is left of that text). *)
LastAmountWins ==
    [][(pc = "loop" /\ pos < Len(lines) /\ Len(parsed') = Len(parsed) + 1)
       => LET line == lines[pos + 1]
              rest == Recognized(line, today.year).rest
              tx   == parsed'[Len(parsed')]
          IN  Cardinality(Occurrences(rest)) >= 2
              => LET o == LastOccurrence(rest)
                 IN  /\ Abs(tx.amount) = ShapedCents(SubSeq(rest, o[1], o[2]))
                     /\ \/ IsSubstring(tx.store_name, SubSeq(rest, 1, o[1] - 1))
                        \/ tx.store_name = line]_vars

(* a line with two amounts gave a transaction whose description still
   holds the first amount *)
EarlierAmountInDescription ==
    /\ pc = "loop" /\ pos > 0 /\ parsed # <<>>
    /\ Cardinality(Occurrences(Recognized(lines[pos], today.year).rest)) = 2
    /\ \E o \in Occurrences(parsed[Len(parsed)].store_name) : TRUE
    /\ parsed[Len(parsed)].store_name # lines[pos]

(* ---------------------------------------------------------------------- *)
(* C16                                                                    *)

T_SUPERMERCADO == <<"S", "U", "P", "E", "R", "M", "E", "R", "C", "A", "D", "O">>
T_LA_FLOR == <<"L", "A", " ", "F", "L", "O", "R">>
T_03 == <<"0", "3">>
T_06 == <<"0", "6">>
T_9_583_29 == <<"9", ".", "5", "8", "3", ",", "2", "9">>

(* "DD/MM <code> * <merchant> C.NN/TT <amount>" *)
FormLine(dd_mm, code, merchant, nn, tt, amount) ==
    dd_mm \o <<" ">> \o code \o <<" ", "*", " ">> \o merchant
          \o <<" ", "C", ".">> \o nn \o <<"/">> \o tt \o <<" ">> \o amount

SlashDates == {d \in DateTokens : DATE_PATTERN(d).ok /\ "/" \in Range(d)}

ExampleLine == FormLine(D_05_03, T_SUPERMERCADO, T_LA_FLOR, T_03, T_06, T_9_583_29)

(* C16: a line "DD/MM <code> * <merchant> C.NN/TT <amount>" whose date is
   accepted and whose day exists in the target period gives a transaction
   of that day in the target period whose description is <merchant>, whose
   installment is NN and whose amount is the value of <amount>; the line
   "05/03 SUPERMERCADO * LA FLOR C.03/06 9.583,29" with target (3, 2024)
   gives exactly 2024-03-05, "LA FLOR", 9583.29, installment 3. *)
InstallmentLineFields ==
    pc = "adjusted"
    => /\ \A i \in 1..Len(lines), d \in SlashDates :
            (/\ lines[i] = FormLine(d, T_SUPERMERCADO, T_LA_FLOR, T_03, T_06, T_9_583_29)
             /\ Recognized(lines[i], today.year).ok
             /\ ValidDate(target.year, target.month, DayOf(lines[i])))
            => \E k \in 1..Len(surviving) :
                  surviving[k] =
                    Transaction(Date(target.year, target.month, DayOf(lines[i])),
                                T_LA_FLOR, ShapedCents(T_9_583_29), ParseInt(T_03))
       /\ (lines = <<ExampleLine>> /\ target = Period(3, 2024))
            => surviving = <<Transaction(Date(2024, 3, 5), T_LA_FLOR, 958329, 3)>>

(* the example line was imported alone into March 2024 *)
ExampleImported ==
    /\ pc = "adjusted"
    /\ lines = <<ExampleLine>>
    /\ target = Period(3, 2024)
    /\ Len(surviving) = 1

(* ---------------------------------------------------------------------- *)
(* C17                                                                    *)

(* C17: an import whose (month, year, card) is the key of an existing
   statement, and add_category with the name of an existing category, each
   end with an error and leave statements, categories, stores and
   transactions as they were. *)
DuplicatesRefused ==
    [][/\ \A m \in Months, y \in StatementYears, cn \in Cards, pdf \in Pdfs :
            (/\ last'.op = "load_statement"
             /\ \E s \in DOMAIN statements : statements[s] = StatementKey(m, y, cn)
             /\ load_statement(m, y, cn, pdf))
            => /\ last'.raised = "ValueError"
               /\ UNCHANGED <<statements, categories, stores, transactions>>
       /\ \A name \in CategoryNames :
            (/\ last'.op = "add_category"
             /\ \E c \in DOMAIN categories : categories[c] = name
             /\ add_category(name))
            => /\ last'.raised = "ValueError"
               /\ UNCHANGED <<statements, categories, stores, transactions>>]_vars

(* a second import for the key of a statement that has transactions was
   just refused *)
DuplicateImportRefused ==
    /\ last = Call("load_statement", "ValueError", 0)
    /\ \E s \in DOMAIN statements \ {cash_id} : StatementRows(transactions, s) # {}
    /\ Cardinality(DOMAIN categories) > 1

(* ---------------------------------------------------------------------- *)
(* C18                                                                    *)

(* C18: delete_statement(sid) removes every transaction of sid and nothing
   else: afterwards no transaction references sid, and the transactions of
   every other statement are the same rows as before. *)
DeleteStatementCascades ==
    [][\A sid \in 1..MaxStatements :
         (sid \in DOMAIN statements /\ delete_statement(sid))
         => /\ sid \notin DOMAIN statements'
            /\ StatementRows(transactions', sid) = {}
            /\ \A x \in DOMAIN transactions :
                 transactions[x].statement_id # sid
                 => x \in DOMAIN transactions' /\ transactions'[x] = transactions[x]
            /\ DOMAIN transactions' \subseteq DOMAIN transactions]_vars

(* a statement was just deleted together with its transactions, and the
   other statement still has its own *)
DeletedBesideOtherStatement ==
    /\ last.op = "delete_statement"
    /\ transactions # <<>>
    /\ Cardinality(DOMAIN transactions) < sqlite_sequence.transactions

(* ---------------------------------------------------------------------- *)
(* C19                                                                    *)

(* C19: an import whose text is parsed and leaves no transaction with a
   day of the target month ends without an error; its statement exists
   with the key entered, has no transaction, and get_category_sums of its
   id is the empty sequence. *)
EmptyImportKeepsStatement ==
    [][\A m \in Months, y \in StatementYears, cn \in Cards, pdf \in Pdfs :
         (/\ last'.op = "load_statement"
          /\ ~\E s \in DOMAIN statements : statements[s] = StatementKey(m, y, cn)
          /\ ~Extracted(pdf).raised
          /\ \A k \in 1..Len(Extracted(pdf).out) :
                ~ValidDay(y, m, Extracted(pdf).out[k])
          /\ load_statement(m, y, cn, pdf))
         => LET sid == sqlite_sequence.statements + 1
            IN  /\ last'.raised = ""
                /\ sid \in DOMAIN statements'
                /\ statements'[sid] = StatementKey(m, y, cn)
                /\ StatementRows(transactions', sid) = {}
                /\ CategorySums(TablesAfter, {sid}) = <<>>]_vars

(* an import that parsed three transactions and kept none has just ended,
   while the cash statement has transactions *)
EmptyImportBesideCash ==
    \E s \in DOMAIN statements :
      /\ last = Call("load_statement", "", s)
      /\ statements[s].month = 13
      /\ StatementRows(transactions, s) = {}
      /\ get_category_sums(s) = <<>>
      /\ get_all_category_sums # <<>>

(* ---------------------------------------------------------------------- *)
(* C20                                                                    *)

(* C20: when, after add_statement has succeeded, the extraction raises or
   an INSERT of add_transactions raises partway, the import ends with the
   error, the statement record exists with the key entered, the other
   statements are as before, and the import is not run again: an
   extraction failure writes no transaction, a persistence failure leaves
   fewer rows under the statement than the import had to write. *)
FailedImportKeepsStatement ==
    [][\A m \in Months, y \in StatementYears, cn \in Cards, pdf \in Pdfs :
         LET sid  == sqlite_sequence.statements + 1
             kept == SelectSeq(Extracted(pdf).out, LAMBDA tx : ValidDay(y, m, tx))
             kept_statement ==
                 /\ last'.raised # ""
                 /\ sid \in DOMAIN statements'
                 /\ statements'[sid] = StatementKey(m, y, cn)
                 /\ \A s \in DOMAIN statements :
                      s \in DOMAIN statements' /\ statements'[s] = statements[s]
         IN  (/\ last'.op = "load_statement"
              /\ ~\E s \in DOMAIN statements : statements[s] = StatementKey(m, y, cn))
             => /\ (Extracted(pdf).raised /\ load_statement(m, y, cn, pdf))
                   => kept_statement /\ transactions' = transactions
                /\ (\E k \in 1..MaxTransactions : load_statement_fault(m, y, cn, pdf, k))
                   => /\ kept_statement
                      /\ Cardinality(StatementRows(transactions', sid)) < Len(kept)
                      /\ \A x \in DOMAIN transactions :
                           x \in DOMAIN transactions'
                           /\ transactions'[x] = transactions[x]]_vars

(* the second INSERT of an import has just raised: the statement is there
   with the first row only *)
PartialImportKept ==
    \E s \in DOMAIN statements :
      /\ last = Call("load_statement", "sqlite3.Error", s)
      /\ Cardinality(StatementRows(transactions, s)) = 1

(***************************************************************************)
(* Properties of the statements (SpecStatements).                          *)
(***************************************************************************)

(* C21: no load_statement step creates a statement with the key of the
   cash statement (month 1, year 1900, card "EFECTIVO"), and none inserts
   transactions under a statement that has this key or under cash_id. *)
ImportNeverTouchesCash ==
    [][last'.op = "load_statement" /\ last' # last
       => /\ \A s \in DOMAIN statements' \ DOMAIN statements :
               statements'[s] # CashKey
          /\ \A x \in DOMAIN transactions' \ DOMAIN transactions :
               /\ transactions'[x].statement_id # cash_id
               /\ statements'[transactions'[x].statement_id] # CashKey]_vars


(***************************************************************************)
(* Properties of the date forms (SpecParse).                               *)
(***************************************************************************)

(* the form  D{1,2}-MMM-YY  or  D{1,2}-MMM-YYYY  at the start of a line:
   day, three letters that are a key of the month-name table, a year of
   two to four digits *)
HyphenForm(line) ==
    LET l  == Strip(line)
        ks == {k \in {1, 2} :
                 /\ \A j \in 1..k : IsDigit(l, j)
                 /\ CharAt(l, k + 1, "-")
                 /\ k + 5 <= Len(l)
                 /\ \A j \in (k + 2)..(k + 4) : l[j] \in Letters
                 /\ CharAt(l, k + 5, "-")
                 /\ RunLen(l, k + 6, Digits) >= 2}
    IN  IF ks = {} THEN NoMatch
        ELSE LET k == Max(ks)
                 n == Min({4, RunLen(l, k + 6, Digits)})
             IN  [ok |-> MONTH_NAMES_get(Lower(SubSeq(l, k + 2, k + 4))) # 0,
                  g1 |-> SubSeq(l, 1, k),
                  g2 |-> SubSeq(l, k + 2, k + 4),
                  g3 |-> SubSeq(l, k + 6, k + 5 + n),
                  start |-> 1, end |-> k + 5 + n]

(* the date the form denotes: a two-digit year YY is the year 2000 + YY *)
HyphenDate(line) ==
    LET h == HyphenForm(line)
    IN  Date(IF Len(h.g3) = 4 THEN ParseInt(h.g3) ELSE 2000 + ParseInt(h.g3),
             MONTH_NAMES_get(Lower(h.g2)), ParseInt(h.g1))

(* the line has the hyphenated form, neither of the other two forms, and
   an amount without a sign after the date *)
HyphenLine(line) ==
    LET l == Strip(line)
        h == HyphenForm(line)
        a == LastAmount(Strip(SubSeq(l, h.end + 1, Len(l))))
    IN  /\ h.ok
        /\ ~DATE_PATTERN(l).ok
        /\ ~MONTH_PATTERN(l).ok
        /\ a.ok
        /\ a.g1[Len(a.g1)] # "-"

(* C22: a line of the form D{1,2}-MMM-YY (such as "24-May-25 ...") that
   matches neither of the other two date forms and carries a well-formed
   amount yields a transaction dated on that day and month of the year
   2000 + YY. *)
HyphenatedYearIsRecognized ==
    [][(pc = "loop" /\ pos < Len(lines) /\ HyphenLine(lines[pos + 1]))
       => /\ pc' = "loop"
          /\ Len(parsed') = Len(parsed) + 1
          /\ parsed'[Len(parsed')].date = HyphenDate(lines[pos + 1])]_vars


(* ---------------------------------------------------------------------- *)
(* C23                                                                    *)

(* the description without its leading tokens of digits only: the first
   position whose token is not purely numeric *)
FirstAlphabetic(desc) ==
    LET skip[i \in 1..(Len(desc) + 1)] ==
            IF i > Len(desc) THEN i
            ELSE LET d == RunLen(desc, i, Digits)
                     w == RunLen(desc, i + d, Whitespace)
                 IN  IF d >= 1 /\ (i + d > Len(desc) \/ w >= 1)
                     THEN skip[i + d + w]
                     ELSE i
    IN  skip[1]
WithoutLeadingNumbers(desc) == SubSeq(desc, FirstAlphabetic(desc), Len(desc))

(* the description of a line before the numeric tokens are looked at: the
   text between the date and the last amount, without the installment
   marker and the text up to the '*' *)
RawDescription(line, year) ==
    LET rest == Recognized(line, year).rest
        desc == Strip(SubSeq(rest, 1, LastAmount(rest).start - 1))
        im   == INSTALL_PATTERN(desc)
    IN  AfterStar(IF im.ok THEN Strip(SubSeq(desc, 1, im.start - 1)) ELSE desc)

(* C23: the description of every emitted transaction is the text between
   date and amount without the purely numeric tokens that precede its first
   token with a letter; numeric tokens after that token stay. *)
LeadingNumbersStripped ==
    [][(pc = "loop" /\ pos < Len(lines) /\ Len(parsed') = Len(parsed) + 1)
       => \E desc \in {WithoutLeadingNumbers(RawDescription(lines[pos + 1], today.year))} :
            parsed'[Len(parsed')].store_name =
                IF desc # <<>> THEN desc ELSE lines[pos + 1]]_vars


(* ---------------------------------------------------------------------- *)
(* C24                                                                    *)

(* the month-name table: the Spanish month names and their abbreviations,
   each with its month number *)
MonthNameTable ==
    {
       [name |-> <<"e", "n", "e", "r", "o">>, month |-> 1],
       [name |-> <<"e", "n", "e">>, month |-> 1],
       [name |-> <<"f", "e", "b", "r", "e", "r", "o">>, month |-> 2],
       [name |-> <<"f", "e", "b">>, month |-> 2],
       [name |-> <<"m", "a", "r", "z", "o">>, month |-> 3],
       [name |-> <<"m", "a", "r">>, month |-> 3],
       [name |-> <<"a", "b", "r", "i", "l">>, month |-> 4],
       [name |-> <<"a", "b", "r">>, month |-> 4],
       [name |-> <<"m", "a", "y", "o">>, month |-> 5],
       [name |-> <<"m", "a", "y">>, month |-> 5],
       [name |-> <<"j", "u", "n", "i", "o">>, month |-> 6],
       [name |-> <<"j", "u", "n">>, month |-> 6],
       [name |-> <<"j", "u", "l", "i", "o">>, month |-> 7],
       [name |-> <<"j", "u", "l">>, month |-> 7],
       [name |-> <<"a", "g", "o", "s", "t", "o">>, month |-> 8],
       [name |-> <<"a", "g", "o">>, month |-> 8],
       [name |-> <<"s", "e", "p", "t", "i", "e", "m", "b", "r", "e">>, month |-> 9],
       [name |-> <<"s", "e", "t", "i", "e", "m", "b", "r", "e">>, month |-> 9],
       [name |-> <<"s", "e", "p", "t">>, month |-> 9],
       [name |-> <<"s", "e", "p">>, month |-> 9],
       [name |-> <<"o", "c", "t", "u", "b", "r", "e">>, month |-> 10],
       [name |-> <<"o", "c", "t">>, month |-> 10],
       [name |-> <<"n", "o", "v", "i", "e", "m", "b", "r", "e">>, month |-> 11],
       [name |-> <<"n", "o", "v">>, month |-> 11],
       [name |-> <<"d", "i", "c", "i", "e", "m", "b", "r", "e">>, month |-> 12],
       [name |-> <<"d", "i", "c">>, month |-> 12],
       [name |-> <<"d", "i", "c", "i", "e", "m">>, month |-> 12]
    }

(* a token without its trailing periods *)
WithoutPeriod(tok) ==
    SubSeq(tok, 1, Max({0} \cup {i \in 1..Len(tok) : tok[i] # "."}))

(* the entries of the table a token is, whatever its case *)
TableEntries(tok) == {e \in MonthNameTable : e.name = Lower(WithoutPeriod(tok))}

(* the line starts with a day number, white space and a token, and not
   with a numeric date *)
DayAndToken(line) ==
    /\ MONTH_PATTERN(Strip(line)).ok
    /\ ~DATE_PATTERN(Strip(line)).ok

(* the text after the token ends with an amount that carries no sign *)
PlainAmountAfterToken(line) ==
    LET l    == Strip(line)
        rest == Strip(SubSeq(l, MONTH_PATTERN(l).end + 1, Len(l)))
        a    == LastAmount(rest)
    IN  /\ a.ok
        /\ a.g1[Len(a.g1)] # "-"
        /\ ~CharAt(rest, a.start - 1, "-")

(* C24: a line that starts with a day number, white space and a token is
   taken as a day + month-name date only when the token, whatever its case
   and without a trailing period, is an entry of the month-name table: a
   token that only begins like a month abbreviation ("market") yields no
   transaction, and every name of the table ("setiembre" included) before a
   well-formed amount yields a transaction on that day of that month. *)
MonthNameOnlyFromTable ==
    [][(pc = "loop" /\ pos < Len(lines) /\ DayAndToken(lines[pos + 1]))
       => \E m2 \in {MONTH_PATTERN(Strip(lines[pos + 1]))} :
            /\ TableEntries(m2.g2) = {}
                 => pc' = "loop" /\ parsed' = parsed
            /\ \A e \in TableEntries(m2.g2) :
                 (/\ ValidDate(today.year, e.month, ParseInt(m2.g1))
                  /\ PlainAmountAfterToken(lines[pos + 1]))
                 => /\ Len(parsed') = Len(parsed) + 1
                    /\ parsed'[Len(parsed')].date.month = e.month
                    /\ parsed'[Len(parsed')].date.day = ParseInt(m2.g1)]_vars


(* ---------------------------------------------------------------------- *)
(* C25                                                                    *)

(* C25: the year against which a recognized day and month are validated is
   the target year of the import: what an import leaves of a document is
   what the line loop yields with the target year as reference year,
   moved to the target period, whatever the calendar year of the run. *)
ReferenceYearIsTargetYear ==
    pc = "adjusted"
    => \E r \in {parse_pdf(lines, target.year)} :
         /\ ~r.raised
         /\ surviving = Adjust(r.out, target.year, target.month)


(***************************************************************************)
(* Properties of stores and sums across statements (Spec).                 *)
(***************************************************************************)

(* C26: no step removes or renames a store; a step that deletes a statement
   leaves the stores table as it is; and a step that adds transactions
   files each of them under a store that, when a store of that name was
   known before, is that store with the category it had. *)
StoresOutliveStatements ==
    [][/\ \A g \in DOMAIN stores :
            g \in DOMAIN stores' /\ stores'[g].name = stores[g].name
       /\ (DOMAIN statements' # DOMAIN statements
           /\ DOMAIN statements' \subseteq DOMAIN statements)
          => stores' = stores
       /\ \A x \in DOMAIN transactions' \ DOMAIN transactions :
            \A g \in DOMAIN stores :
               stores[g].name = stores'[transactions'[x].store_id].name
               => transactions'[x].store_id = g /\ stores'[g] = stores[g]]_vars

(* an imported statement was deleted with its rows, and the entry made
   afterwards is filed under a store that has a category of its own *)
ResolvedAfterDeletion ==
    /\ last.op = "add_manual_transaction_ui"
    /\ DOMAIN statements = {cash_id}
    /\ sqlite_sequence.statements = 2
    /\ DOMAIN transactions = {MaxTransactions}
    /\ sqlite_sequence.stores = 2
    /\ stores[transactions[MaxTransactions].store_id].category_id
         # get_default_category_id


(* ---------------------------------------------------------------------- *)
(* C27                                                                    *)

(* the sum of the totals of a result of (name, total) entries *)
SumOfTotals(result) ==
    LET upto[n \in 0..Len(result)] ==
            IF n = 0 THEN 0 ELSE upto[n - 1] + result[n][2]
    IN  upto[Len(result)]

(* the total a result gives for a category name, 0 when it has no entry *)
TotalOf(result, name) ==
    SumOfTotals(SelectSeq(result, LAMBDA e : e[1] = name))

(* the sum over the statement ids 1..n of the total of a category name in
   get_category_sums *)
OverStatements(name) ==
    LET upto[n \in 0..sqlite_sequence.statements] ==
            IF n = 0 THEN 0
            ELSE upto[n - 1] + (IF n \in DOMAIN statements
                                THEN TotalOf(get_category_sums(n), name) ELSE 0)
    IN  upto[sqlite_sequence.statements]

(* C27: for every statement s the totals of get_category_sums(s) add up to
   the sum of the amounts of the transactions under s, and for every
   category the total of get_all_category_sums() is the sum over the
   statements of its total in get_category_sums. *)
SumsCoverEveryTransaction ==
    /\ \A s \in DOMAIN statements :
         SumOfTotals(get_category_sums(s))
           = SignedSum({x \in DOMAIN transactions : transactions[x].statement_id = s})
    /\ \E all \in {get_all_category_sums} :
         \A c \in DOMAIN categories :
            TotalOf(all, categories[c]) = OverStatements(categories[c])

(* one category has transactions under two statements, beside a second
   category with transactions *)
CategoryAcrossStatements ==
    /\ Len(get_all_category_sums) = 2
    /\ \E c \in DOMAIN categories :
         \E s1, s2 \in DOMAIN statements :
            s1 # s2 /\ InScope({s1}, c) # {} /\ InScope({s2}, c) # {}


(***************************************************************************)
(* Properties of the statements, continued (SpecStatements).               *)
(***************************************************************************)

(* C28: every transaction under a statement other than the cash statement
   is dated in the month and year of that statement, also after the
   statement was edited. *)
DatesFollowStatement ==
    \A x \in DOMAIN transactions :
       \E s \in {transactions[x].statement_id} :
          (s # cash_id /\ statements[s] # CashKey)
          => /\ transactions[x].date.month = statements[s].month
             /\ transactions[x].date.year = statements[s].year


(* ---------------------------------------------------------------------- *)
(* C29                                                                    *)

(* C29: a statement receives transactions from one import at most: the
   transactions a load_statement step inserts go under a statement with a
   new id that the step itself created, the key of a statement it creates
   was the key of no statement before, and an import refused as a
   duplicate leaves statements and transactions as they were. *)
OneImportPerStatement ==
    [][last'.op = "load_statement"
       => /\ \A x \in DOMAIN transactions' \ DOMAIN transactions :
               /\ transactions'[x].statement_id \notin DOMAIN statements
               /\ transactions'[x].statement_id > sqlite_sequence.statements
          /\ \A s \in DOMAIN statements' \ DOMAIN statements :
               \A o \in DOMAIN statements : statements[o] # statements'[s]
          /\ last'.raised = "ValueError"
               => UNCHANGED <<statements, transactions, stores>>]_vars

(* an import was just refused for the key of an imported statement that
   has no transactions: an empty import or a failed extraction before *)
RefusedForEmptyStatement ==
    /\ last = Call("load_statement", "ValueError", 0)
    /\ \E s \in DOMAIN statements \ {cash_id} :
         /\ statements[s] # CashKey
         /\ StatementRows(transactions, s) = {}
    /\ cash_id \in DOMAIN statements
    /\ statements[cash_id] = CashKey


(* ---------------------------------------------------------------------- *)
(* C30                                                                    *)

(* C30: in every reachable state the statement with id cash_id exists and
   has the key (month 1, year 1900, card "EFECTIVO"). *)
CashStatementIsKept ==
    /\ cash_id \in DOMAIN statements
    /\ statements[cash_id] = CashKey

=========================================================================
